---- MODULE Spec2Model ----
(***************************************************************************)
(* Model of lib/roi_data_layer/minibatch.py (Fast R-CNN, HICO variant):    *)
(* get_minibatch, _sample_rois, _get_4_side_bbox, _get_image_blob,         *)
(* _project_im_rois and _get_bbox_regression_labels.                       *)
(*                                                                         *)
(* Conventions.                                                            *)
(*  - numpy arrays are sequences; a Python index k is the TLA+ index k+1.  *)
(*    Index VALUES stored in arrays (fg_inds, keep_inds, batch indices,    *)
(*    im_i) keep their 0-based Python value.                               *)
(*  - overlaps and thresholds are in tenths (0.5 is 5).                    *)
(*  - pixel coordinates are in eighths of a pixel (1.0 is 8), which holds  *)
(*    0.5*r exactly for boxes given in half pixels.                        *)
(*  - FG_FRACTION is the rational <<numerator, denominator>>.              *)
(***************************************************************************)
EXTENDS Integers, Sequences, FiniteSets, TLC

VARIABLES
    pc,      \* position of the running call
    cfg,     \* fast_rcnn.config.cfg as read by the call
    roidb,   \* the caller's list of RoI records (mutable numpy arrays)
    loc,     \* local variables of get_minibatch
    blobs,   \* the returned dictionary
    args,    \* arguments of a direct call of a helper function
    ret      \* what that call returned

vars == <<pc, cfg, roidb, loc, blobs, args, ret>>

(***************************************************************************)
(* Bounds of the model.                                                    *)
(***************************************************************************)
MaxDim == 3        \* image width and height, in pixels (direct calls of _get_4_side_bbox)
MaxRows == 2       \* rows of a compact target array (direct calls of the expander)
MaxN == 3          \* RoIs of a record (direct calls of _sample_rois)
MaxQuota == 2      \* fg_rois_per_image and rois_per_image (direct calls of _sample_rois)
MaxImages == 2     \* records of a roidb (get_minibatch)
MaxTotalRois == 3  \* RoIs of a roidb, all records together (get_minibatch)

(***************************************************************************)
(* Helpers.                                                                *)
(***************************************************************************)
Maximum(a, b) == IF a >= b THEN a ELSE b
Minimum(a, b) == IF a <= b THEN a ELSE b

Range(s) == {s[k] : k \in 1..Len(s)}

\* All sequences over S of length 0..n.
SeqsUpTo(S, n) == UNION {[1..k -> S] : k \in 0..n}

\* All orderings of all k-element subsets of S (draws without replacement).
RECURSIVE Arrangements(_, _)
Arrangements(S, k) ==
    IF k = 0 THEN {<<>>}
    ELSE UNION {{<<x>> \o t : t \in Arrangements(S \ {x}, k - 1)} : x \in S}

\* np.where(mask)[0]: the 0-based indices where mask holds, ascending.
RECURSIVE WhereFrom(_, _)
WhereFrom(mask, k) ==
    IF k > Len(mask) THEN <<>>
    ELSE (IF mask[k] THEN <<k - 1>> ELSE <<>>) \o WhereFrom(mask, k + 1)

Where(mask) == WhereFrom(mask, 1)

\* a[inds] for an integer index array: the gathered elements, in inds' order.
Take(a, inds) == [k \in 1..Len(inds) |-> a[inds[k] + 1]]

(***************************************************************************)
(* Values of the variables a specification does not use.                   *)
(***************************************************************************)
NoCfg == [none |-> TRUE]
NoLoc == [none |-> TRUE]
NoBlobs == [none |-> TRUE]
NoArgs == [none |-> TRUE]
NoRet == [none |-> TRUE]

(***************************************************************************)
(* _get_4_side_bbox (lines 165-194).                                       *)
(***************************************************************************)
\* (w+h)/2 at line 170.  On a float box it is the exact average.  On an
\* integer-typed box, Python 2's / on numpy integers is floor division, so
\* the radius is floor((w+h)/2) pixels.
Radius(w, h, dtype) ==
    IF dtype = "float" THEN (w + h) \div 2
    ELSE 8 * (((w + h) \div 8) \div 2)

\* The mutant of _get_4_side_bbox: the near-edge clamps left out.
_get_4_side_bbox_unclamped(bbox, im_width, im_height, dtype) ==
    LET w == bbox[3] - bbox[1] + 8
        h == bbox[4] - bbox[2] + 8
        r == Radius(w, h, dtype)
    IN  [l |-> <<bbox[1] - r \div 2, bbox[2], bbox[3] - w \div 2, bbox[4]>>,
         t |-> <<bbox[1], bbox[2] - h \div 2, bbox[3], bbox[4] - h \div 2>>,
         r |-> <<bbox[1] + w \div 2, bbox[2], bbox[3] + r \div 2, bbox[4]>>,
         b |-> <<bbox[1], bbox[2] + h \div 2, bbox[3], bbox[4] + h \div 2>>]

\* bbox, im_width and im_height in eighths of a pixel; the result in the
\* order left, top, right, bottom.
_get_4_side_bbox(bbox, im_width, im_height, dtype) ==
    LET w == bbox[3] - bbox[1] + 8
        h == bbox[4] - bbox[2] + 8
        r == Radius(w, h, dtype)
    IN  [l |-> <<Maximum(bbox[1] - r \div 2, 8), bbox[2],
                 bbox[3] - w \div 2, bbox[4]>>,
         t |-> <<bbox[1], Maximum(bbox[2] - h \div 2, 8),
                 bbox[3], bbox[4] - h \div 2>>,
         r |-> <<bbox[1] + w \div 2, bbox[2],
                 Minimum(bbox[3] + r \div 2, im_width), bbox[4]>>,
         b |-> <<bbox[1], bbox[2] + h \div 2,
                 bbox[3], Minimum(bbox[4] + h \div 2, im_height)>>]

(***************************************************************************)
(* _get_bbox_regression_labels (lines 228-250).                            *)
(***************************************************************************)
\* The mutant of _get_bbox_regression_labels: inds = np.where(clss >= 0).
_get_bbox_regression_labels_ge(bbox_target_data, num_classes) ==
    LET Hit(ind, j) == /\ bbox_target_data[ind][1] >= 0
                       /\ 4 * bbox_target_data[ind][1] <= j - 1
                       /\ j - 1 < 4 * bbox_target_data[ind][1] + 4
    IN  [bbox_targets |->
            [ind \in 1..Len(bbox_target_data) |->
                [j \in 1..(4 * num_classes) |->
                    IF Hit(ind, j)
                    THEN bbox_target_data[ind][j - 4 * bbox_target_data[ind][1] + 1]
                    ELSE 0]],
         bbox_loss_weights |->
            [ind \in 1..Len(bbox_target_data) |->
                [j \in 1..(4 * num_classes) |-> IF Hit(ind, j) THEN 1 ELSE 0]]]

\* bbox_target_data: rows <<class, dx, dy, dw, dh>>.  Column j of the result
\* is Python column j-1; a row of class cls > 0 writes the Python columns
\* start = 4*cls .. end-1 = 4*cls+3 from bbox_target_data[ind, 1:].
_get_bbox_regression_labels(bbox_target_data, num_classes) ==
    LET Hit(ind, j) == /\ bbox_target_data[ind][1] > 0
                       /\ 4 * bbox_target_data[ind][1] <= j - 1
                       /\ j - 1 < 4 * bbox_target_data[ind][1] + 4
    IN  [bbox_targets |->
            [ind \in 1..Len(bbox_target_data) |->
                [j \in 1..(4 * num_classes) |->
                    IF Hit(ind, j)
                    THEN bbox_target_data[ind][j - 4 * bbox_target_data[ind][1] + 1]
                    ELSE 0]],
         bbox_loss_weights |->
            [ind \in 1..Len(bbox_target_data) |->
                [j \in 1..(4 * num_classes) |-> IF Hit(ind, j) THEN 1 ELSE 0]]]

(***************************************************************************)
(* _sample_rois (lines 118-163).  cfg is the module-level configuration.   *)
(***************************************************************************)
\* The mutant of Choice: replace=True.
ChoiceWithReplacement(a, size) == [1..size -> Range(a)]

\* npr.choice(a, size=size, replace=False) (lines 134-135, 147-148): every
\* ordering of every size-element subset of a can be drawn.
Choice(a, size) == Arrangements(Range(a), size)

\* npr.choice raises ValueError on a negative size, and on a size larger
\* than the population when replace=False.
ChoiceRaises(a, size) == size < 0 \/ size > Len(a)

\* The mutant of FgRoisPerThisImage: every foreground RoI is taken.
FgRoisPerThisImageAll(fg_rois_per_image, fg_size) == fg_size

\* Line 131.
FgRoisPerThisImage(fg_rois_per_image, fg_size) ==
    Minimum(fg_rois_per_image, fg_size)

\* The mutant of BgRoisPerThisImage: the foreground count is not subtracted.
BgRoisPerThisImageNoSub(rois_per_image, fg_rois_per_this_image, bg_size) ==
    Minimum(rois_per_image, bg_size)

\* Lines 142-144.
BgRoisPerThisImage(rois_per_image, fg_rois_per_this_image, bg_size) ==
    Minimum(rois_per_image - fg_rois_per_this_image, bg_size)

\* The mutant of ClampLabels: labels[fg_rois_per_this_image + 1:] = 0.
ClampLabelsOffByOne(labels, fg_rois_per_this_image) ==
    [k \in 1..Len(labels) |-> IF k - 1 >= fg_rois_per_this_image + 1 THEN 0
                              ELSE labels[k]]

\* Line 155: labels[fg_rois_per_this_image:] = 0, the count being >= 0.
ClampLabels(labels, fg_rois_per_this_image) ==
    [k \in 1..Len(labels) |-> IF k - 1 >= fg_rois_per_this_image THEN 0
                              ELSE labels[k]]

\* The mutant of LabelsAliasesRecord: labels[keep_inds] taken as a view.
LabelsIsView == TRUE

\* Whether `labels` at line 155 still names the record's own max_classes
\* array.  Line 123 binds it to that array; line 153 rebinds it to
\* labels[keep_inds], and numpy indexing with an integer array always
\* allocates a new array (also for an empty index and for one covering all
\* rows), so the write at line 155 goes to the new array.
LabelsAliasesRecord == FALSE

\* The record as the call leaves it: the in-place write of line 155 lands in
\* the record's max_classes (at the rows keep_inds[fg_rois_per_this_image:])
\* only if `labels` aliases it.  Nothing else in the call writes to an array
\* of the record.
RecordAfterSample(rec, keep_inds, fg_rois_per_this_image) ==
    IF LabelsAliasesRecord
    THEN [rec EXCEPT !.max_classes =
            [i \in 1..Len(rec.max_classes) |->
                IF \E k \in 1..Len(keep_inds) :
                      k - 1 >= fg_rois_per_this_image /\ keep_inds[k] = i - 1
                THEN 0 ELSE rec.max_classes[i]]]
    ELSE rec

\* The set of outcomes of one call: the draws of npr.choice are the only
\* source of nondeterminism.  An outcome is either [raised |-> TRUE, ...] or
\* the returned tuple (labels, overlaps, rois, bbox_targets,
\* bbox_loss_weights) together with the locals fg_inds, bg_inds, keep_inds,
\* fg_rois_per_this_image and the record as the call leaves it.
_sample_rois(rec, fg_rois_per_image, rois_per_image, num_classes) ==
    LET overlaps == rec.max_overlaps
        fg_all == Where([i \in 1..Len(overlaps) |->
                            overlaps[i] >= cfg.TRAIN.FG_THRESH])
        fg_n == FgRoisPerThisImage(fg_rois_per_image, Len(fg_all))
        bg_all == Where([i \in 1..Len(overlaps) |->
                            /\ overlaps[i] < cfg.TRAIN.BG_THRESH_HI
                            /\ overlaps[i] >= cfg.TRAIN.BG_THRESH_LO])
        bg_n == BgRoisPerThisImage(rois_per_image, fg_n, Len(bg_all))
        Raised == [raised |-> TRUE, record |-> rec]
        Returned(fg_inds, bg_inds) ==
            LET keep_inds == fg_inds \o bg_inds
                expanded == _get_bbox_regression_labels(
                                Take(rec.bbox_targets, keep_inds), num_classes)
            IN  [raised |-> FALSE,
                 labels |-> ClampLabels(Take(rec.max_classes, keep_inds), fg_n),
                 overlaps |-> Take(overlaps, keep_inds),
                 rois |-> Take(rec.boxes, keep_inds),
                 bbox_targets |-> expanded.bbox_targets,
                 bbox_loss_weights |-> expanded.bbox_loss_weights,
                 fg_inds |-> fg_inds,
                 bg_inds |-> bg_inds,
                 keep_inds |-> keep_inds,
                 fg_rois_per_this_image |-> fg_n,
                 record |-> RecordAfterSample(rec, keep_inds, fg_n)]
    IN  IF Len(fg_all) > 0 /\ ChoiceRaises(fg_all, fg_n) THEN {Raised}
        ELSE IF Len(bg_all) > 0 /\ ChoiceRaises(bg_all, bg_n) THEN {Raised}
        ELSE {Returned(fg_inds, bg_inds) :
                fg_inds \in (IF Len(fg_all) > 0 THEN Choice(fg_all, fg_n)
                             ELSE {fg_all}),
                bg_inds \in (IF Len(bg_all) > 0 THEN Choice(bg_all, bg_n)
                             ELSE {bg_all})}

(***************************************************************************)
(* RoI records of the model.  A record row is one of four RoIs.            *)
(***************************************************************************)
Px(b) == [k \in 1..Len(b) |-> 8 * b[k]]

RoiKinds ==
    {[box |-> Px(<<1, 1, 2, 2>>), max_class |-> 1, max_overlap |-> 6,
      bbox_target |-> <<1, 1, 2, 3, 4>>],
     [box |-> Px(<<3, 1, 5, 3>>), max_class |-> 2, max_overlap |-> 9,
      bbox_target |-> <<2, -1, 0, 2, 0>>],
     [box |-> Px(<<2, 2, 6, 4>>), max_class |-> 1, max_overlap |-> 2,
      bbox_target |-> <<0, 0, 0, 0, 0>>],
     [box |-> Px(<<1, 3, 1, 3>>), max_class |-> 0, max_overlap |-> 0,
      bbox_target |-> <<0, 0, 0, 0, 0>>]}

\* The record whose rows are the RoIs of the sequence ks.
RecordOf(ks, image, label) ==
    [image |-> image,
     boxes |-> [i \in 1..Len(ks) |-> ks[i].box],
     max_classes |-> [i \in 1..Len(ks) |-> ks[i].max_class],
     max_overlaps |-> [i \in 1..Len(ks) |-> ks[i].max_overlap],
     bbox_targets |-> [i \in 1..Len(ks) |-> ks[i].bbox_target],
     label |-> label]

\* <<FG_THRESH, BG_THRESH_HI, BG_THRESH_LO>>, in tenths: the Fast R-CNN
\* defaults, a background band that overlaps the foreground band, and a
\* background band that starts at 0 and ends below the foreground band.
ThresholdChoices == {<<5, 5, 1>>, <<2, 5, 1>>, <<5, 3, 0>>}

NumClasses == 3

(***************************************************************************)
(* SpecSample: direct calls of _sample_rois on every record of up to MaxN  *)
(* RoIs, with every quota pair in 0..MaxQuota.                             *)
(***************************************************************************)
InitSample ==
    /\ pc = "call_sample_rois"
    /\ \E th \in ThresholdChoices :
         cfg = [TRAIN |-> [FG_THRESH |-> th[1], BG_THRESH_HI |-> th[2],
                           BG_THRESH_LO |-> th[3]]]
    /\ \E ks \in SeqsUpTo(RoiKinds, MaxN) : roidb = <<RecordOf(ks, "im0", <<1>>)>>
    /\ \E fg \in 0..MaxQuota, total \in 0..MaxQuota :
         args = [fg_rois_per_image |-> fg, rois_per_image |-> total,
                 num_classes |-> NumClasses]
    /\ ret = NoRet
    /\ loc = NoLoc /\ blobs = NoBlobs

CallSampleRois ==
    /\ pc = "call_sample_rois"
    /\ \E res \in _sample_rois(roidb[1], args.fg_rois_per_image,
                               args.rois_per_image, args.num_classes) :
         /\ ret' = res
         /\ roidb' = <<res.record>>
         /\ pc' = IF res.raised THEN "raise_sample_rois" ELSE "return_sample_rois"
    /\ UNCHANGED <<cfg, loc, blobs, args>>

NextSample == CallSampleRois

SpecSample == InitSample /\ [][NextSample]_vars

(***************************************************************************)
(* SpecSides: direct calls of _get_4_side_bbox on every box inside an      *)
(* image of up to MaxDim x MaxDim pixels.  A float box has coordinates in  *)
(* half pixels, an integer-typed box in whole pixels.                      *)
(***************************************************************************)
Coords(dim, dtype) ==
    IF dtype = "float" THEN {4 * k : k \in 2..(2 * dim)}
    ELSE {8 * k : k \in 1..dim}

InitSides ==
    /\ pc = "call_get_4_side_bbox"
    /\ \E dtype \in {"float", "int"}, width \in 1..MaxDim, height \in 1..MaxDim :
         \E x1 \in Coords(width, dtype), x2 \in Coords(width, dtype),
            y1 \in Coords(height, dtype), y2 \in Coords(height, dtype) :
              /\ x1 <= x2 /\ y1 <= y2
              /\ args = [bbox |-> <<x1, y1, x2, y2>>, im_width |-> 8 * width,
                         im_height |-> 8 * height, dtype |-> dtype]
    /\ ret = NoRet
    /\ cfg = NoCfg /\ roidb = <<>> /\ loc = NoLoc /\ blobs = NoBlobs

CallGet4SideBbox ==
    /\ pc = "call_get_4_side_bbox"
    /\ ret' = _get_4_side_bbox(args.bbox, args.im_width, args.im_height, args.dtype)
    /\ pc' = "return_get_4_side_bbox"
    /\ UNCHANGED <<cfg, roidb, loc, blobs, args>>

NextSides == CallGet4SideBbox

SpecSides == InitSides /\ [][NextSides]_vars

(***************************************************************************)
(* SpecExpand: direct calls of _get_bbox_regression_labels on every        *)
(* compact target array of up to MaxRows rows whose classes lie in         *)
(* 0..num_classes-1.                                                       *)
(***************************************************************************)
NumClassesChoices == {2, 3}

Deltas == {<<0, 0, 0, 0>>, <<1, 2, 3, 4>>, <<-1, 0, 2, 0>>}

CompactRows(num_classes) ==
    {<<c>> \o d : c \in 0..(num_classes - 1), d \in Deltas}

InitExpand ==
    /\ pc = "call_get_bbox_regression_labels"
    /\ \E num_classes \in NumClassesChoices :
         \E data \in SeqsUpTo(CompactRows(num_classes), MaxRows) :
              args = [bbox_target_data |-> data, num_classes |-> num_classes]
    /\ ret = NoRet
    /\ cfg = NoCfg /\ roidb = <<>> /\ loc = NoLoc /\ blobs = NoBlobs

CallGetBboxRegressionLabels ==
    /\ pc = "call_get_bbox_regression_labels"
    /\ ret' = _get_bbox_regression_labels(args.bbox_target_data, args.num_classes)
    /\ pc' = "return_get_bbox_regression_labels"
    /\ UNCHANGED <<cfg, roidb, loc, blobs, args>>

NextExpand == CallGetBboxRegressionLabels

SpecExpand == InitExpand /\ [][NextExpand]_vars

(***************************************************************************)
(* get_minibatch (lines 16-116) and its helpers.                           *)
(***************************************************************************)
\* cv2.imread(path).shape (line 206): the image files of the model, as
\* (width, height) in pixels.  Pixel values are not modelled.
ImageFile(path) == [width |-> 6, height |-> 4]

\* utils.blob.prep_im_for_blob (called at lines 213-214): the factor that
\* brings the shorter side to target_size, lowered so that the longer side
\* does not exceed max_size.  The images and scales of the model give whole
\* factors.
prep_im_for_blob(im, target_size, max_size) ==
    LET im_size_min == Minimum(im.width, im.height)
        im_size_max == Maximum(im.width, im.height)
    IN  IF (target_size * im_size_max) \div im_size_min > max_size
        THEN max_size \div im_size_max
        ELSE target_size \div im_size_min

\* Lines 196-221.  The blob is kept as the list of (image, scale) it packs.
_get_image_blob(rdb, scale_inds) ==
    LET scale(i) == prep_im_for_blob(ImageFile(rdb[i].image),
                                     cfg.TRAIN.SCALES[scale_inds[i] + 1],
                                     cfg.TRAIN.MAX_SIZE)
    IN  [blob |-> [i \in 1..Len(rdb) |-> [image |-> rdb[i].image, scale |-> scale(i)]],
         im_scales |-> [i \in 1..Len(rdb) |-> scale(i)],
         w_org |-> [i \in 1..Len(rdb) |-> ImageFile(rdb[i].image).width],
         h_org |-> [i \in 1..Len(rdb) |-> ImageFile(rdb[i].image).height]]

\* The mutant of _project_im_rois: the RoIs are returned unscaled.
_project_im_rois_unscaled(im_rois, im_scale_factor) == im_rois

\* Lines 223-226: im_rois * im_scale_factor, a new array.
_project_im_rois(im_rois, im_scale_factor) ==
    [k \in 1..Len(im_rois) |->
        [c \in 1..Len(im_rois[k]) |-> im_rois[k][c] * im_scale_factor]]

\* np.round(num/den): to the nearest integer, a tie to the even one.
RoundHalfEven(num, den) ==
    LET q == num \div den
        r == num % den
    IN  IF 2 * r < den THEN q
        ELSE IF 2 * r > den THEN q + 1
        ELSE IF q % 2 = 0 THEN q ELSE q + 1

\* The mutant of BatchSizeAssert: the assertion left out.
BatchSizeAssertOff(num_images) == TRUE

\* The condition asserted at lines 22-24.
BatchSizeAssert(num_images) == cfg.TRAIN.BATCH_SIZE % num_images = 0

\* Line 25 (Python 2 integer division) and line 26.  np.round returns a
\* float holding a whole number; it is used below as a count, a slice bound
\* and the size of a draw, which the numpy of this Python 2 code accepts.
RoisPerImage(num_images) == cfg.TRAIN.BATCH_SIZE \div num_images

FgRoisPerImage(rois_per_image) ==
    RoundHalfEven(cfg.TRAIN.FG_FRACTION[1] * rois_per_image, cfg.TRAIN.FG_FRACTION[2])

\* The conditions asserted at lines 29-32 when cfg.FLAG_HICO is set.
HicoAsserts(num_images) ==
    /\ ~cfg.TRAIN.BBOX_REG
    /\ cfg.TRAIN.FG_FRACTION[1] = cfg.TRAIN.FG_FRACTION[2]
    /\ cfg.TRAIN.BATCH_SIZE = num_images
    /\ cfg.TRAIN.BATCH_SIZE = cfg.TRAIN.BATCH_SIZE

\* Number of RoI blobs (lines 40-44, 50-52).
NumRoiBlobs == IF cfg.FEAT_TYPE = 4 THEN cfg.TOP_K * 4 ELSE cfg.TOP_K

\* The element type of 'boxes' (N x 4 float array in the data model).
BoxesDtype == "float"

\* Lines 59-70 for one record: the list im_rois, or a raised IndexError when
\* boxes[ind, :] is asked for a row the record does not have.  The slice
\* boxes[ind:ind+1, :] of the tight-box branch is empty past the last row.
HicoImRoisRaises(rec) == cfg.FEAT_TYPE = 4 /\ Len(rec.boxes) < cfg.TOP_K

HicoImRois(rec, width, height) ==
    [j \in 1..NumRoiBlobs |->
        IF cfg.FEAT_TYPE = 4
        THEN LET ind == (j - 1) \div 4
                 sides == _get_4_side_bbox(rec.boxes[ind + 1], 8 * width,
                                           8 * height, BoxesDtype)
             IN  <<CASE (j - 1) % 4 = 0 -> sides.l
                     [] (j - 1) % 4 = 1 -> sides.t
                     [] (j - 1) % 4 = 2 -> sides.r
                     [] OTHER -> sides.b>>
        ELSE IF j <= Len(rec.boxes) THEN <<rec.boxes[j]>> ELSE <<>>]

\* Lines 76-80: project im_rois[ind], prefix the batch index, stack.
AddToRoisBlob(rois_blob, im_rois, im_index, im_scale) ==
    [ind \in 1..Len(rois_blob) |->
        IF ind <= Len(im_rois)
        THEN rois_blob[ind] \o
             [k \in 1..Len(im_rois[ind]) |->
                 <<im_index>> \o _project_im_rois(im_rois[ind], im_scale)[k]]
        ELSE rois_blob[ind]]

\* Lines 91-116: the returned dictionary, as a function of its keys.
SideNames == <<"l", "t", "r", "b">>

RoisKey(ind, i) ==
    IF cfg.FEAT_TYPE = 4
    THEN "rois_" \o ToString(ind + 1) \o "_" \o SideNames[i + 1]
    ELSE "rois_" \o ToString(ind + 1)

BuildBlobs(l) ==
    LET base == IF cfg.FLAG_HICO
                THEN [key \in {"data", "labels"} |->
                        IF key = "data" THEN l.im_blob ELSE l.labels_blob]
                     @@ [key \in {RoisKey(ind, i) :
                                    ind \in 0..(cfg.TOP_K - 1),
                                    i \in (IF cfg.FEAT_TYPE = 4 THEN 0..3 ELSE {0})}
                          |-> LET pos == CHOOSE p \in
                                            {<<ind, i>> : ind \in 0..(cfg.TOP_K - 1),
                                                          i \in 0..3} :
                                            RoisKey(p[1], p[2]) = key
                              IN  IF cfg.FEAT_TYPE = 4
                                  THEN l.rois_blob[pos[1] * 4 + pos[2] + 1]
                                  ELSE l.rois_blob[pos[1] + 1]]
                ELSE [key \in {"data", "rois", "labels"} |->
                        CASE key = "data" -> l.im_blob
                          [] key = "rois" -> l.rois_blob[1]
                          [] OTHER -> l.labels_blob]
    IN  IF cfg.TRAIN.BBOX_REG
        THEN base @@ [key \in {"bbox_targets", "bbox_loss_weights"} |->
                        IF key = "bbox_targets" THEN l.bbox_targets_blob
                        ELSE l.bbox_loss_blob]
        ELSE base

(***************************************************************************)
(* Spec: one call of get_minibatch(roidb, NumClasses) under each           *)
(* configuration of Configs, on every roidb of up to MaxImages records     *)
(* holding up to MaxTotalRois RoIs together.                               *)
(***************************************************************************)
Config(batch_size, fg_fraction, bbox_reg, flag_hico, top_k, feat_type) ==
    [TRAIN |-> [BATCH_SIZE |-> batch_size, FG_FRACTION |-> fg_fraction,
                BBOX_REG |-> bbox_reg, FG_THRESH |-> 5, BG_THRESH_HI |-> 5,
                BG_THRESH_LO |-> 1, SCALES |-> <<4, 12>>, MAX_SIZE |-> 12],
     FLAG_HICO |-> flag_hico, TOP_K |-> top_k, FEAT_TYPE |-> feat_type]

Configs ==
    {Config(2, <<1, 2>>, TRUE, FALSE, 1, 0),    \* standard, with regression
     Config(3, <<1, 4>>, FALSE, FALSE, 1, 0),   \* standard, no regression
     Config(2, <<1, 2>>, FALSE, FALSE, 2, 0),   \* standard with TOP_K = 2 (line 54)
     Config(1, <<1, 1>>, FALSE, TRUE, 2, 0),    \* multi-region, tight boxes
     Config(2, <<1, 1>>, FALSE, TRUE, 1, 0),    \* multi-region, tight boxes
     Config(2, <<1, 1>>, FALSE, TRUE, 1, 4),    \* multi-region, context boxes
     Config(1, <<1, 1>>, FALSE, TRUE, 2, 4),    \* multi-region, context boxes
     Config(2, <<1, 2>>, FALSE, TRUE, 1, 0),    \* multi-region, FG_FRACTION < 1
     Config(2, <<1, 1>>, TRUE, TRUE, 1, 0)}     \* multi-region with regression

\* The 'label' arrays of the records of a multi-region roidb.  A standard
\* roidb is not read for its labels: they are all <<0>> there.
LabelsOf(c) == IF c.FLAG_HICO THEN {<<1>>, <<2>>} ELSE {<<0>>}

\* The RoIs of a multi-region roidb are read for their boxes alone.
KindsOf(c) ==
    IF c.FLAG_HICO THEN {k \in RoiKinds : k.max_overlap \in {0, 9}} ELSE RoiKinds

RECURSIVE RoidbsOf(_, _, _)
RoidbsOf(c, n, budget) ==
    IF n = 0 THEN {<<>>}
    ELSE UNION {{<<RecordOf(ks, "im.jpg", label)>> \o rest :
                    rest \in RoidbsOf(c, n - 1, budget - Len(ks))} :
                ks \in SeqsUpTo(KindsOf(c), budget), label \in LabelsOf(c)}

\* The locals of get_minibatch on entry.
EntryLoc ==
    [random_scale_inds |-> <<>>, rois_per_image |-> 0,
     fg_rois_per_image |-> 0, im_blob |-> <<>>, im_scales |-> <<>>,
     w_org |-> <<>>, h_org |-> <<>>, im_i |-> 0, rois_blob |-> <<>>,
     labels_blob |-> <<>>, bbox_targets_blob |-> <<>>,
     bbox_loss_blob |-> <<>>,
     keep_inds |-> <<>>,    \* history: keep_inds of each _sample_rois call
     fg_taken |-> <<>>,     \* history: fg_rois_per_this_image of each call
     loaded |-> 0,          \* history: number of cv2.imread calls
     error |-> "none"]

Init ==
    /\ pc = "start"
    /\ cfg \in Configs
    /\ \E n \in 0..MaxImages : roidb \in RoidbsOf(cfg, n, MaxTotalRois)
    /\ loc = EntryLoc
    /\ blobs = NoBlobs
    /\ args = NoArgs /\ ret = NoRet

\* Lines 18-21: one scale index per image, uniform over the scales.
DrawScales ==
    /\ pc = "start"
    /\ \E inds \in [1..Len(roidb) -> 0..(Len(cfg.TRAIN.SCALES) - 1)] :
         loc' = [loc EXCEPT !.random_scale_inds = inds]
    /\ pc' = "assert"
    /\ UNCHANGED <<cfg, roidb, blobs, args, ret>>

Raise(error) ==
    /\ pc' = "raised"
    /\ loc' = [loc EXCEPT !.error = error]
    /\ UNCHANGED <<cfg, roidb, blobs, args, ret>>

\* Lines 22-32: the assertions and the two quotas.
CheckConfig ==
    /\ pc = "assert"
    /\ LET num_images == Len(roidb) IN
       IF num_images = 0 THEN Raise("ZeroDivisionError")
       ELSE IF ~BatchSizeAssert(num_images) THEN Raise("AssertionError")
       ELSE IF cfg.FLAG_HICO /\ ~HicoAsserts(num_images) THEN Raise("AssertionError")
       ELSE /\ loc' = [loc EXCEPT
                         !.rois_per_image = RoisPerImage(num_images),
                         !.fg_rois_per_image =
                             FgRoisPerImage(RoisPerImage(num_images))]
            /\ pc' = "image_blob"
            /\ UNCHANGED <<cfg, roidb, blobs, args, ret>>

\* Lines 37-47: the image blob of the whole batch, then the empty blobs.
GetImageBlob ==
    /\ pc = "image_blob"
    /\ LET got == _get_image_blob(roidb, loc.random_scale_inds) IN
       loc' = [loc EXCEPT !.im_blob = got.blob, !.im_scales = got.im_scales,
                          !.w_org = got.w_org, !.h_org = got.h_org,
                          !.loaded = Len(roidb),
                          !.rois_blob = [ind \in 1..NumRoiBlobs |-> <<>>],
                          !.labels_blob = <<>>, !.bbox_targets_blob = <<>>,
                          !.bbox_loss_blob = <<>>]
    /\ pc' = "loop"
    /\ UNCHANGED <<cfg, roidb, blobs, args, ret>>

\* One iteration of the loop of line 49 in standard mode (lines 50-57 and
\* 76-85): the assertion of line 54, _sample_rois, and the stacking.
SampleImage ==
    /\ pc = "loop" /\ loc.im_i < Len(roidb) /\ ~cfg.FLAG_HICO
    /\ IF ~(cfg.TOP_K = 1 /\ cfg.FEAT_TYPE = 0) THEN Raise("AssertionError")
       ELSE \E res \in _sample_rois(roidb[loc.im_i + 1], loc.fg_rois_per_image,
                                    loc.rois_per_image, NumClasses) :
              /\ roidb' = [roidb EXCEPT ![loc.im_i + 1] = res.record]
              /\ IF res.raised
                 THEN /\ pc' = "raised"
                      /\ loc' = [loc EXCEPT !.error = "ValueError"]
                 ELSE /\ pc' = "loop"
                      /\ loc' = [loc EXCEPT
                            !.rois_blob = AddToRoisBlob(@, <<res.rois>>, loc.im_i,
                                                        loc.im_scales[loc.im_i + 1]),
                            !.labels_blob = @ \o res.labels,
                            !.bbox_targets_blob = @ \o res.bbox_targets,
                            !.bbox_loss_blob = @ \o res.bbox_loss_weights,
                            !.keep_inds = Append(@, res.keep_inds),
                            !.fg_taken = Append(@, res.fg_rois_per_this_image),
                            !.im_i = @ + 1]
              /\ UNCHANGED <<cfg, blobs, args, ret>>

\* One iteration of the loop in multi-region mode (lines 50-52, 59-73 and
\* 76-85).  labels is the slice label[0:1]; the bbox arrays have no rows.
RegionsImage ==
    /\ pc = "loop" /\ loc.im_i < Len(roidb) /\ cfg.FLAG_HICO
    /\ LET rec == roidb[loc.im_i + 1] IN
       IF HicoImRoisRaises(rec) THEN Raise("IndexError")
       ELSE /\ loc' = [loc EXCEPT
                  !.rois_blob = AddToRoisBlob(@,
                                    HicoImRois(rec, loc.w_org[loc.im_i + 1],
                                               loc.h_org[loc.im_i + 1]),
                                    loc.im_i, loc.im_scales[loc.im_i + 1]),
                  !.labels_blob = @ \o SubSeq(rec.label, 1, 1),
                  !.im_i = @ + 1]
            /\ pc' = "loop"
            /\ UNCHANGED <<cfg, roidb, blobs, args, ret>>

\* Lines 91-116.
Return ==
    /\ pc = "loop" /\ loc.im_i = Len(roidb)
    /\ blobs' = BuildBlobs(loc)
    /\ pc' = "done"
    /\ UNCHANGED <<cfg, roidb, loc, args, ret>>

\* The caller calls get_minibatch again on the same roidb, as the data layer
\* does for every batch: the arrays of the roidb are whatever the earlier
\* calls left.
CallAgain ==
    /\ pc \in {"done", "raised"}
    /\ pc' = "start"
    /\ loc' = EntryLoc
    /\ blobs' = NoBlobs
    /\ UNCHANGED <<cfg, roidb, args, ret>>

Next ==
    \/ DrawScales
    \/ CheckConfig
    \/ GetImageBlob
    \/ SampleImage
    \/ RegionsImage
    \/ Return
    \/ CallAgain

Spec == Init /\ [][Next]_vars

(***************************************************************************)
(* Claims about _get_4_side_bbox, under SpecSides.                         *)
(***************************************************************************)
SidesReturned == pc = "return_get_4_side_bbox"

InsideX(x) == 8 <= x /\ x <= args.im_width
InsideY(y) == 8 <= y /\ y <= args.im_height

\* C9 as stated: for every box inside the image, every x coordinate of the
\* left, top, right and bottom context boxes lies in [1, image_width] and
\* every y coordinate in [1, image_height].
C9_AllSidesInsideImage ==
    SidesReturned =>
        \A s \in {ret.l, ret.t, ret.r, ret.b} :
            InsideX(s[1]) /\ InsideX(s[3]) /\ InsideY(s[2]) /\ InsideY(s[4])

\* C9 amended: the clamped near edges and the copied coordinates always lie
\* inside the image, and left[0] >= 1; each unclamped far edge (left[2],
\* top[3], right[0], bottom[1]) lies inside the image exactly when the box's
\* midpoint is at least half a pixel away from that border (x1+x2 >= 3,
\* y1+y2 >= 3, x1+x2 <= 2*image_width-1, y1+y2 <= 2*image_height-1), and
\* misses the image by at most half a pixel otherwise.
C9_SidesInsideExceptFarEdge ==
    SidesReturned =>
        LET x1 == args.bbox[1]
            y1 == args.bbox[2]
            x2 == args.bbox[3]
            y2 == args.bbox[4]
        IN  /\ ret.l[1] >= 8
            /\ InsideX(ret.l[1]) /\ InsideY(ret.l[2]) /\ InsideY(ret.l[4])
            /\ InsideX(ret.t[1]) /\ InsideY(ret.t[2]) /\ InsideX(ret.t[3])
            /\ InsideY(ret.r[2]) /\ InsideX(ret.r[3]) /\ InsideY(ret.r[4])
            /\ InsideX(ret.b[1]) /\ InsideX(ret.b[3]) /\ InsideY(ret.b[4])
            /\ InsideX(ret.l[3]) <=> (x1 + x2 >= 24)
            /\ InsideY(ret.t[4]) <=> (y1 + y2 >= 24)
            /\ InsideX(ret.r[1]) <=> (x1 + x2 <= 2 * args.im_width - 8)
            /\ InsideY(ret.b[2]) <=> (y1 + y2 <= 2 * args.im_height - 8)
            /\ ret.l[3] >= 4 /\ ret.t[4] >= 4
            /\ ret.r[1] <= args.im_width + 4 /\ ret.b[2] <= args.im_height + 4

\* A call whose left and bottom clamps both acted and whose far edges are
\* inside the image.
C9_Witness ==
    /\ SidesReturned
    /\ args.bbox[1] + args.bbox[3] >= 24
    /\ args.bbox[1] - Radius(args.bbox[3] - args.bbox[1] + 8,
                             args.bbox[4] - args.bbox[2] + 8, args.dtype) \div 2 < 8
    /\ ret.l[1] = 8
    /\ args.bbox[4] + (args.bbox[4] - args.bbox[2] + 8) \div 2 > args.im_height
    /\ ret.b[4] = args.im_height

(***************************************************************************)
(* Claims about _get_bbox_regression_labels, under SpecExpand.             *)
(***************************************************************************)
ExpandReturned == pc = "return_get_bbox_regression_labels"

\* C4: the two outputs are N x 4*num_classes; a row of class 0 is entirely
\* zero in both; a row of class c > 0 has its four deltas in columns
\* [4c, 4c+4) of the targets and 1 in those columns of the weights; every
\* entry outside that block is 0 in both, so the weights are {0,1}-valued.
C4_ExpandBlocks ==
    ExpandReturned =>
        LET data == args.bbox_target_data
            K == args.num_classes
            T == ret.bbox_targets
            W == ret.bbox_loss_weights
        IN  /\ Len(T) = Len(data) /\ Len(W) = Len(data)
            /\ \A ind \in 1..Len(data) :
                LET c == data[ind][1] IN
                /\ Len(T[ind]) = 4 * K /\ Len(W[ind]) = 4 * K
                /\ c = 0 => \A j \in 1..(4 * K) : T[ind][j] = 0 /\ W[ind][j] = 0
                /\ c > 0 => \A d \in 1..4 : /\ T[ind][4 * c + d] = data[ind][d + 1]
                                            /\ W[ind][4 * c + d] = 1
                /\ \A j \in 1..(4 * K) :
                     (j <= 4 * c \/ j > 4 * c + 4) => T[ind][j] = 0 /\ W[ind][j] = 0
                /\ \A j \in 1..(4 * K) : W[ind][j] \in {0, 1}

\* A call on an array holding a class-0 row with non-zero deltas and a row
\* of the last class with non-zero deltas.
C4_Witness ==
    /\ ExpandReturned
    /\ \E ind \in 1..Len(args.bbox_target_data) :
         /\ args.bbox_target_data[ind][1] = 0
         /\ args.bbox_target_data[ind][2] # 0
    /\ \E ind \in 1..Len(args.bbox_target_data) :
         /\ args.bbox_target_data[ind][1] = args.num_classes - 1
         /\ args.bbox_target_data[ind][2] # 0
         /\ ret.bbox_targets[ind][4 * args.num_classes] # 0

(***************************************************************************)
(* Claims about _sample_rois, under SpecSample.  The foreground and        *)
(* background sets are restated here from the record and the thresholds.   *)
(***************************************************************************)
SampleReturned == pc = "return_sample_rois"

\* F = {i : max_overlaps[i] >= FG_THRESH}, 0-based.
FgSet(rec) ==
    {i - 1 : i \in {j \in 1..Len(rec.max_overlaps) :
                        rec.max_overlaps[j] >= cfg.TRAIN.FG_THRESH}}

\* B = {i : BG_THRESH_LO <= max_overlaps[i] < BG_THRESH_HI}, 0-based.
BgSet(rec) ==
    {i - 1 : i \in {j \in 1..Len(rec.max_overlaps) :
                        /\ cfg.TRAIN.BG_THRESH_LO <= rec.max_overlaps[j]
                        /\ rec.max_overlaps[j] < cfg.TRAIN.BG_THRESH_HI}}

FgTaken(rec, fg_quota) == Minimum(fg_quota, Cardinality(FgSet(rec)))

BgTaken(rec, fg_quota, total_quota) ==
    Minimum(total_quota - FgTaken(rec, fg_quota), Cardinality(BgSet(rec)))

Distinct(s) == \A j, k \in 1..Len(s) : j # k => s[j] # s[k]

\* C1: in the result of _sample_rois, every label at a row position >= the
\* foreground count taken is exactly 0 whatever the RoI's max_classes value,
\* and every label below that count is the max_classes value of the RoI
\* selected for that row.
C1_LabelClamp ==
    SampleReturned =>
        LET rec == roidb[1]
            n == FgTaken(rec, args.fg_rois_per_image)
        IN  /\ Len(ret.labels) = Len(ret.keep_inds)
            /\ Len(ret.rois) = Len(ret.keep_inds)
            /\ \A k \in 1..Len(ret.labels) :
                 /\ ret.rois[k] = rec.boxes[ret.keep_inds[k] + 1]
                 /\ k - 1 >= n => ret.labels[k] = 0
                 /\ k - 1 < n => ret.labels[k] = rec.max_classes[ret.keep_inds[k] + 1]

\* A result holding a foreground row with a non-zero label and a background
\* row whose RoI has a non-zero max_classes value.
C1_Witness ==
    /\ SampleReturned
    /\ \E k \in 1..Len(ret.labels) :
         k - 1 < ret.fg_rois_per_this_image /\ ret.labels[k] # 0
    /\ \E k \in 1..Len(ret.labels) :
         /\ k - 1 >= ret.fg_rois_per_this_image
         /\ roidb[1].max_classes[ret.keep_inds[k] + 1] # 0
         /\ ret.labels[k] = 0

\* C2: with 0 <= fg_quota <= total_quota the call returns (it does not
\* raise) exactly min(fg_quota, |F|) rows taken from F followed by exactly
\* min(total_quota - that count, |B|) rows taken from B; zero rows when F and
\* B are both empty; one row when |F| = 1, B is empty and the quotas are
\* (fg=1, total=2).
C2_RowCounts ==
    (pc # "call_sample_rois" /\ args.fg_rois_per_image <= args.rois_per_image) =>
        LET rec == roidb[1]
            nf == FgTaken(rec, args.fg_rois_per_image)
            nb == BgTaken(rec, args.fg_rois_per_image, args.rois_per_image)
        IN  /\ SampleReturned
            /\ Len(ret.fg_inds) = nf /\ Range(ret.fg_inds) \subseteq FgSet(rec)
            /\ Len(ret.bg_inds) = nb /\ Range(ret.bg_inds) \subseteq BgSet(rec)
            /\ ret.keep_inds = ret.fg_inds \o ret.bg_inds
            /\ Len(ret.labels) = nf + nb /\ Len(ret.overlaps) = nf + nb
            /\ Len(ret.rois) = nf + nb
            /\ Len(ret.bbox_targets) = nf + nb
            /\ Len(ret.bbox_loss_weights) = nf + nb
            /\ (FgSet(rec) = {} /\ BgSet(rec) = {}) => Len(ret.labels) = 0
            /\ ( /\ Cardinality(FgSet(rec)) = 1 /\ BgSet(rec) = {}
                 /\ args.fg_rois_per_image = 1 /\ args.rois_per_image = 2 )
               => Len(ret.labels) = 1

\* The call of scenario A on a record that also holds an RoI in neither set:
\* one foreground RoI, no background RoI, quotas (fg=1, total=2), one row.
C2_Witness ==
    /\ SampleReturned
    /\ Cardinality(FgSet(roidb[1])) = 1 /\ BgSet(roidb[1]) = {}
    /\ Len(roidb[1].boxes) > 1
    /\ args.fg_rois_per_image = 1 /\ args.rois_per_image = 2
    /\ Len(ret.labels) = 1

\* C10: when BG_THRESH_HI <= FG_THRESH no RoI is selected twice by one call:
\* the foreground block holds pairwise distinct members of F, the background
\* block pairwise distinct members of B, the foreground block comes first,
\* the blocks share no index, and the row count is at most the number of
\* RoIs of the record.
C10_NoRoiTwice ==
    (SampleReturned /\ cfg.TRAIN.BG_THRESH_HI <= cfg.TRAIN.FG_THRESH) =>
        LET rec == roidb[1] IN
        /\ Distinct(ret.fg_inds) /\ Range(ret.fg_inds) \subseteq FgSet(rec)
        /\ Distinct(ret.bg_inds) /\ Range(ret.bg_inds) \subseteq BgSet(rec)
        /\ ret.keep_inds = ret.fg_inds \o ret.bg_inds
        /\ Range(ret.fg_inds) \cap Range(ret.bg_inds) = {}
        /\ Distinct(ret.keep_inds)
        /\ Len(ret.labels) = Len(ret.keep_inds)
        /\ Len(ret.labels) <= Len(rec.boxes)

\* A call with disjoint bands that drew two of three foreground RoIs, or one
\* foreground and one background RoI out of several of each.
C10_Witness ==
    /\ SampleReturned
    /\ cfg.TRAIN.BG_THRESH_HI <= cfg.TRAIN.FG_THRESH
    /\ Len(ret.keep_inds) = 2
    /\ Cardinality(FgSet(roidb[1])) + Cardinality(BgSet(roidb[1])) = 3
    /\ Len(ret.fg_inds) >= 1

(***************************************************************************)
(* Claims about get_minibatch, under Spec.                                 *)
(***************************************************************************)
Done == pc = "done"

StandardMode == ~cfg.FLAG_HICO

RECURSIVE SumTo(_, _)
SumTo(f, n) == IF n = 0 THEN 0 ELSE f[n] + SumTo(f, n - 1)

\* Number of rows the images before image i (1-based) put in the blobs.
RowsBefore(i) == SumTo([j \in 1..Len(loc.keep_inds) |-> Len(loc.keep_inds[j])], i - 1)

\* C3: in standard mode the output is row-aligned and in image order:
\* 'rois', 'labels' (and 'bbox_targets' / 'bbox_loss_weights' exactly when
\* regression is enabled) have the same number of rows, row k of each is of
\* the same sampled RoI, the rows of image i form one block placed after the
\* blocks of images 0..i-1, and a 'rois' row of that block is
\* [i, s*x1, s*y1, s*x2, s*y2] with s the scale the image blob holds for
\* image i.
C3_RowAligned ==
    (Done /\ StandardMode) =>
        LET n == Len(roidb)
            total == RowsBefore(n + 1)
            reg == cfg.TRAIN.BBOX_REG
        IN  /\ DOMAIN blobs = {"data", "rois", "labels"} \cup
                    (IF reg THEN {"bbox_targets", "bbox_loss_weights"} ELSE {})
            /\ Len(blobs["data"]) = n
            /\ Len(blobs["rois"]) = total /\ Len(blobs["labels"]) = total
            /\ reg => /\ Len(blobs["bbox_targets"]) = total
                      /\ Len(blobs["bbox_loss_weights"]) = total
            /\ \A i \in 1..n :
                 /\ blobs["data"][i].image = roidb[i].image
                 /\ \A k \in 1..Len(loc.keep_inds[i]) :
                      LET row == RowsBefore(i) + k
                          roi == loc.keep_inds[i][k] + 1
                          s == blobs["data"][i].scale
                          box == roidb[i].boxes[roi]
                          exp == _get_bbox_regression_labels(
                                     <<roidb[i].bbox_targets[roi]>>, NumClasses)
                      IN  /\ blobs["rois"][row] =
                                <<i - 1, s * box[1], s * box[2], s * box[3], s * box[4]>>
                          /\ blobs["labels"][row] =
                                (IF k - 1 >= loc.fg_taken[i] THEN 0
                                 ELSE roidb[i].max_classes[roi])
                          /\ reg => /\ blobs["bbox_targets"][row] = exp.bbox_targets[1]
                                    /\ blobs["bbox_loss_weights"][row] =
                                           exp.bbox_loss_weights[1]

\* A regression batch of two images resized by different factors, each
\* with at least one row.
C3_Witness ==
    /\ Done /\ StandardMode /\ cfg.TRAIN.BBOX_REG
    /\ Len(roidb) = 2
    /\ Len(loc.keep_inds[1]) >= 1 /\ Len(loc.keep_inds[2]) >= 1
    /\ blobs["data"][1].scale = 1 /\ blobs["data"][2].scale = 2
    /\ blobs["rois"][Len(blobs["rois"])][1] = 1

\* C5: when BATCH_SIZE is not evenly divisible by the number of images the
\* call fails with the assertion error and returns no minibatch, before any
\* image is loaded and before any RoI is sampled or projected.
C5_IndivisibleFails ==
    (Len(roidb) > 0 /\ cfg.TRAIN.BATCH_SIZE % Len(roidb) # 0
        /\ pc \notin {"start", "assert"}) =>
            /\ pc = "raised" /\ loc.error = "AssertionError"
            /\ blobs = NoBlobs
            /\ loc.loaded = 0 /\ loc.im_blob = <<>>
            /\ loc.keep_inds = <<>> /\ loc.rois_blob = <<>> /\ loc.im_i = 0

\* A failed call on two images with BATCH_SIZE 3, after the scale draws.
C5_Witness ==
    /\ pc = "raised"
    /\ Len(roidb) = 2 /\ cfg.TRAIN.BATCH_SIZE = 3
    /\ Len(loc.random_scale_inds) = 2
    /\ Len(roidb[1].boxes) > 0

RowsOf(i) ==
    FgTaken(roidb[i], loc.fg_rois_per_image)
        + BgTaken(roidb[i], loc.fg_rois_per_image, loc.rois_per_image)

\* C7 as stated: in standard mode the length of 'labels' is the sum of the
\* rows sampled per image, at most quota x images, and equal to it whenever
\* every image has |F| + |B| >= quota.
C7_FullWhenEnoughCandidates ==
    (Done /\ StandardMode) =>
        LET n == Len(roidb)
            quota == cfg.TRAIN.BATCH_SIZE \div n
        IN  /\ Len(blobs["labels"]) = SumTo([i \in 1..n |-> RowsOf(i)], n)
            /\ Len(blobs["labels"]) <= quota * n
            /\ (\A i \in 1..n :
                    Cardinality(FgSet(roidb[i])) + Cardinality(BgSet(roidb[i])) >= quota)
               => Len(blobs["labels"]) = quota * n

\* C7 amended: ... and equal to quota x images whenever every image has
\* enough background candidates to fill what its foreground rows leave:
\* |B| >= quota - min(foreground quota, |F|).
C7_FullWhenEnoughBackground ==
    (Done /\ StandardMode) =>
        LET n == Len(roidb)
            quota == cfg.TRAIN.BATCH_SIZE \div n
        IN  /\ Len(blobs["labels"]) = SumTo([i \in 1..n |-> RowsOf(i)], n)
            /\ Len(blobs["labels"]) <= quota * n
            /\ (\A i \in 1..n :
                    Cardinality(BgSet(roidb[i])) >=
                        quota - FgTaken(roidb[i], loc.fg_rois_per_image))
               => Len(blobs["labels"]) = quota * n

\* A full batch in which an image had more foreground RoIs than its
\* foreground quota and background RoIs filled the rest.
C7_Witness ==
    /\ Done /\ StandardMode
    /\ Len(blobs["labels"]) = cfg.TRAIN.BATCH_SIZE
    /\ \E i \in 1..Len(roidb) :
         /\ Cardinality(FgSet(roidb[i])) > loc.fg_rois_per_image
         /\ loc.fg_taken[i] >= 1
         /\ Len(loc.keep_inds[i]) > loc.fg_taken[i]

\* C8: in multi-region mode every image contributes exactly one row to each
\* (region, side) tensor: the output holds TOP_K (tight boxes) or 4*TOP_K
\* (context boxes) region tensors of one row per image, row i carrying batch
\* index i, and 'labels' holds each image's own label, one per image.
C8_OneRowPerImagePerRegion ==
    (Done /\ cfg.FLAG_HICO) =>
        LET n == Len(roidb)
            keys == DOMAIN blobs \ {"data", "labels"}
        IN  /\ Cardinality(keys) = NumRoiBlobs
            /\ Len(blobs["labels"]) = n
            /\ \A i \in 1..n : blobs["labels"][i] = roidb[i].label[1]
            /\ \A key \in keys :
                 /\ Len(blobs[key]) = n
                 /\ \A i \in 1..n : blobs[key][i][1] = i - 1

====
